---------------------------- MODULE Spec2Model ----------------------------
(***************************************************************************)
(* A model of github.com/mkmik/jsonnetenc (src/marshal.go, the version     *)
(* that starts at line 146 of the file).                                   *)
(*                                                                         *)
(* Text is a sequence of characters; a character is a one-letter string,   *)
(* except a control character, which TLA+ cannot write in a literal and    *)
(* which is named by its code point (BEL is "U+0007").                     *)
(***************************************************************************)
EXTENDS Integers, Sequences, FiniteSets, TLC

----------------------------------------------------------------------------
(* Text helpers (Go's strings and bytes packages)                          *)

\* The characters of a TLA+ string.
Chars(s) == [i \in 1..Len(s) |-> SubSeq(s, i, i)]

\* U+0007, a control character that is not whitespace.
BEL == "U+0007"

\* Does text t hold p at position i?
HasAt(t, i, p) ==
    /\ i >= 1
    /\ i + Len(p) - 1 <= Len(t)
    /\ \A k \in 1..Len(p) : t[i + k - 1] = p[k]

HasPrefix(t, p) == HasAt(t, 1, p)
HasSuffix(t, p) == HasAt(t, Len(t) - Len(p) + 1, p)

\* strings.TrimPrefix, strings.TrimSuffix: at most one occurrence is removed.
TrimPrefix(t, p) == IF HasPrefix(t, p) THEN SubSeq(t, Len(p) + 1, Len(t)) ELSE t
TrimSuffix(t, p) == IF HasSuffix(t, p) THEN SubSeq(t, 1, Len(t) - Len(p)) ELSE t

IsSpace(c) == c \in {" ", "\n", "\t", "\r"}

\* The least and the greatest member of a non-empty set of numbers.
Least(S) == CHOOSE m \in S : \A n \in S : m <= n
Greatest(S) == CHOOSE m \in S : \A n \in S : m >= n

\* bytes.TrimSpace
TrimSpace(t) ==
    LET idx == {i \in 1..Len(t) : ~IsSpace(t[i])}
    IN IF idx = {} THEN <<>> ELSE SubSeq(t, Least(idx), Greatest(idx))

RECURSIVE Join(_, _)
\* bytes.Join
Join(l, sep) ==
    IF Len(l) = 0 THEN <<>>
    ELSE IF Len(l) = 1 THEN l[1]
    ELSE l[1] \o sep \o Join(Tail(l), sep)

RECURSIVE FlattenRange(_, _, _)
\* The concatenation of l[lo], ..., l[hi], by halves.
FlattenRange(l, lo, hi) ==
    IF lo > hi THEN <<>>
    ELSE IF lo = hi THEN l[lo]
    ELSE FlattenRange(l, lo, (lo + hi) \div 2)
         \o FlattenRange(l, ((lo + hi) \div 2) + 1, hi)

\* The concatenation of the texts of l.
Flatten(l) == FlattenRange(l, 1, Len(l))

RECURSIVE IntToText(_)
\* The decimal digits of a natural number.
IntToText(n) ==
    LET d == SubSeq("0123456789", (n % 10) + 1, (n % 10) + 1)
    IN IF n < 10 THEN <<d>> ELSE IntToText(n \div 10) \o <<d>>

----------------------------------------------------------------------------
(* Results of the Go functions: ([]byte, error).  A []byte is nil or       *)
(* present; a present one may be empty.                                    *)

NoErr == "nil"
Ok(t) == [nil |-> FALSE, b |-> t, err |-> NoErr]
Fail(e) == [nil |-> TRUE, b |-> <<>>, err |-> e]

----------------------------------------------------------------------------
(* Constants and quoting                                                   *)

jsonnetEscapeOpen == Chars("%%%jsonnet ")
jsonnetEscapeClose == Chars(" tennojs%%%")

\* fmt's %q (strconv.Quote) of one character: Go escape syntax.
GoQuoteChar(c) ==
    CASE c = "\"" -> <<"\\", "\"">>
      [] c = "\\" -> <<"\\", "\\">>
      [] c = "\n" -> <<"\\", "n">>
      [] c = "\t" -> <<"\\", "t">>
      [] c = "\r" -> <<"\\", "r">>
      [] c = BEL  -> <<"\\", "a">>
      [] OTHER    -> <<c>>

\* fmt.Sprintf("%q", s)
GoQuote(s) == <<"\"">> \o Flatten([i \in 1..Len(s) |-> GoQuoteChar(s[i])]) \o <<"\"">>

\* encoding/json's rendering of one character of a string or key.
\* (The alphabet of the model holds none of <, >, & and no non-ASCII.)
JSONQuoteChar(c) ==
    CASE c = "\"" -> <<"\\", "\"">>
      [] c = "\\" -> <<"\\", "\\">>
      [] c = "\n" -> <<"\\", "n">>
      [] c = "\t" -> <<"\\", "t">>
      [] c = "\r" -> <<"\\", "r">>
      [] c = BEL  -> Chars("\\u0007")
      [] OTHER    -> <<c>>

JSONQuote(s) == <<"\"">> \o Flatten([i \in 1..Len(s) |-> JSONQuoteChar(s[i])]) \o <<"\"">>

HexDigits == {"0", "1", "2", "3", "4", "5", "6", "7", "8", "9",
              "a", "b", "c", "d", "e", "f", "A", "B", "C", "D", "E", "F"}

\* Inside a JSON string literal t, is position i a backslash that starts an
\* escape sequence?  It is when an even number of backslashes stands right
\* before it.
JSONEscapeAt(t, i) ==
    /\ i >= 1
    /\ i <= Len(t)
    /\ t[i] = "\\"
    /\ LET run == CHOOSE n \in 0..(i - 1) :
                      /\ \A k \in 1..n : t[i - k] = "\\"
                      /\ (n = i - 1 \/ t[i - n - 1] # "\\")
       IN run % 2 = 0

\* Is position i part of an escape sequence that started before it: the
\* character after the backslash, or one of the four digits of a \u escape?
JSONEscapedAt(t, i) ==
    \/ JSONEscapeAt(t, i - 1)
    \/ \E j \in (i - 5)..(i - 2) : JSONEscapeAt(t, j) /\ t[j + 1] = "u"

\* Is the escape sequence that starts at position i one JSON knows?
JSONEscapeValid(t, i) ==
    /\ i + 1 <= Len(t)
    /\ \/ t[i + 1] \in {"\"", "\\", "/", "b", "f", "n", "r", "t"}
       \/ /\ t[i + 1] = "u"
          /\ i + 5 <= Len(t)
          /\ \A k \in 2..5 : t[i + k] \in HexDigits

\* The character the escape sequence at position i stands for.
JSONEscapeChar(t, i) ==
    CASE t[i + 1] = "n" -> "\n"
      [] t[i + 1] = "t" -> "\t"
      [] t[i + 1] = "r" -> "\r"
      [] t[i + 1] = "b" -> "U+0008"
      [] t[i + 1] = "f" -> "U+000C"
      [] t[i + 1] = "u" -> "U+" \o t[i + 2] \o t[i + 3] \o t[i + 4] \o t[i + 5]
      [] OTHER -> t[i + 1]

\* Where the string literal that opens at position i of t closes: the first
\* double quote after i that no escape sequence holds, 0 when there is none.
JSONStringEnd(t, i) ==
    LET ends == {e \in (i + 1)..Len(t) : t[e] = "\"" /\ ~JSONEscapeAt(t, e - 1)}
    IN IF ends = {} THEN 0 ELSE Least(ends)

\* The JSON decoder on the string literal t[i..e] (both quotes included):
\* err when it holds a raw control character or an unknown escape.
JSONDecodeString(t, i, e) ==
    LET lit == SubSeq(t, i + 1, e - 1)
        piece == [k \in 1..Len(lit) |->
                     IF JSONEscapeAt(lit, k) THEN <<JSONEscapeChar(lit \o <<"\"">>, k)>>
                     ELSE IF JSONEscapedAt(lit, k) THEN <<>>
                     ELSE <<lit[k]>>]
        bad == \E k \in 1..Len(lit) :
                   \/ JSONEscapeAt(lit, k) /\ ~JSONEscapeValid(lit, k)
                   \/ ~JSONEscapedAt(lit, k) /\ lit[k] \in {BEL, "\n", "\t", "\r"}
    IN IF bad THEN [err |-> TRUE, s |-> <<>>]
       ELSE [err |-> FALSE, s |-> Flatten(piece)]

\* json.Unmarshal(i, &s) on a text that starts with a double quote: the whole
\* text has to be one string literal.  On an error s keeps its zero value.
JSONUnmarshalString(t) ==
    IF Len(t) >= 2 /\ t[1] = "\"" /\ JSONStringEnd(t, 1) = Len(t)
    THEN JSONDecodeString(t, 1, Len(t))
    ELSE [err |-> TRUE, s |-> <<>>]

----------------------------------------------------------------------------
(* The escape codec: wrap, exprRegexp, unwrap                              *)

\* wrap: the Go-quoted literal of <open><s><close>.
wrap(s) == GoQuote(jsonnetEscapeOpen \o s \o jsonnetEscapeClose)

\* The literal parts of exprRegexp, "(?U)%%%jsonnet (.*) tennojs%%%":
\* a double quote and the open marker; the close marker and a double quote.
exprOpen == <<"\"">> \o jsonnetEscapeOpen
exprClose == jsonnetEscapeClose \o <<"\"">>

\* The group (.*) is not greedy and "." matches no newline: from position k,
\* the first position where the closing part stands, 0 when a newline or the
\* end of the text comes first.
exprEnd(t, k) ==
    LET ends == {e \in k..Len(t) : HasAt(t, e, exprClose)}
        e == Least(ends)
    IN IF ends = {} \/ \E n \in k..(e - 1) : t[n] = "\n" THEN 0 ELSE e

\* The leftmost match of exprRegexp at or after position i: [from, to], or
\* from = 0 when there is none.
exprFind(t, i) ==
    LET starts == {s \in i..Len(t) :
                      HasAt(t, s, exprOpen) /\ exprEnd(t, s + Len(exprOpen)) # 0}
        s == Least(starts)
    IN IF starts = {} THEN [from |-> 0, to |-> 0]
       ELSE [from |-> s, to |-> exprEnd(t, s + Len(exprOpen)) + Len(exprClose) - 1]

\* The function unwrap hands to ReplaceAllFunc, on one match.
unwrapOne(m) ==
    LET d == JSONUnmarshalString(m)
    IN [err |-> d.err,
        s |-> TrimSuffix(TrimPrefix(d.s, jsonnetEscapeOpen), jsonnetEscapeClose)]

RECURSIVE unwrapFrom(_, _, _, _)
\* exprRegexp.ReplaceAllFunc from position i on; acc is the output so far and
\* bad says whether a match failed to decode.
unwrapFrom(t, i, acc, bad) ==
    LET m == exprFind(t, i)
    IN IF m.from = 0
       THEN [err |-> bad, s |-> acc \o SubSeq(t, i, Len(t))]
       ELSE LET r == unwrapOne(SubSeq(t, m.from, m.to))
            IN unwrapFrom(t, m.to + 1, acc \o SubSeq(t, i, m.from - 1) \o r.s,
                          bad \/ r.err)

\* unwrap: (nil, err) when any match failed to decode.
unwrap(t) ==
    LET r == unwrapFrom(t, 1, <<>>, FALSE)
    IN IF r.err THEN Fail("decode") ELSE Ok(r.s)

----------------------------------------------------------------------------
(* The identifier classifier                                               *)

Letters == {SubSeq("abcdefghijklmnopqrstuvwxyzABCDEFGHIJKLMNOPQRSTUVWXYZ", i, i) : i \in 1..52}
Digits == {SubSeq("0123456789", i, i) : i \in 1..10}

\* idRegexp.MatchString: ^[_a-zA-Z][_a-zA-Z0-9]*$ (in Go, $ is the end of the
\* text and nothing else).
idRegexpMatch(s) ==
    /\ Len(s) >= 1
    /\ s[1] \in Letters \cup {"_"}
    /\ \A i \in 2..Len(s) : s[i] \in Letters \cup Digits \cup {"_"}

reservedIdentifiers ==
    {Chars(w) : w \in {"assert", "else", "error", "false", "for",
                       "function", "if", "import", "importstr", "importbin",
                       "in", "local", "null", "tailstrict", "then",
                       "self", "super", "true"}}

\* A classifier that forgets the reserved words.
requiresEscapingShapeOnly(s) == ~idRegexpMatch(s)

requiresEscaping(s) ==
    IF s \in reservedIdentifiers THEN TRUE ELSE ~idRegexpMatch(s)

----------------------------------------------------------------------------
(* The value tree handed to Marshal                                        *)

\* Literals: what encoding/json encodes by itself.
String(s) == [t |-> "string", s |-> s]
Number(n) == [t |-> "number", n |-> n]
Bool(b) == [t |-> "bool", b |-> b]
Null == [t |-> "null"]
\* A struct or a map: its fields in the order the encoder writes them.
Field(k, val) == [k |-> k, v |-> val]
Object(fs) == [t |-> "object", fs |-> fs]
Array(es) == [t |-> "array", es |-> es]
\* A value of a type encoding/json refuses (a channel, a function).
Unsupported == [t |-> "unsupported"]

\* The expression nodes: the types of the package with a MarshalJSON method.
Import(s) == [t |-> "Import", s |-> s]
ImportStr(s) == [t |-> "ImportStr", s |-> s]
ImportBin(s) == [t |-> "ImportBin", s |-> s]
Self(s) == [t |-> "Self", s |-> s]
Super(s) == [t |-> "Super", s |-> s]
Var(s) == [t |-> "Var", s |-> s]
\* Sum is a slice: nil, or present with zero or more elements.
Sum(es) == [t |-> "Sum", nil |-> FALSE, es |-> es]
NilSum == [t |-> "Sum", nil |-> TRUE, es |-> <<>>]
Index(l, r) == [t |-> "Index", LHS |-> l, RHS |-> r]
Member(l, f) == [t |-> "Member", LHS |-> l, Field |-> f]

----------------------------------------------------------------------------
(* The structural encoder (encoding/json with SetIndent("", "    ")) and   *)
(* the MarshalJSON methods, which call marshal on their operands           *)

IndentWidth == 4

\* A newline and the indentation of depth d.
NewlineIndent(d) == <<"\n">> \o [i \in 1..(IndentWidth * d) |-> " "]

\* The first error of a sequence of results, NoErr when there is none.
FirstErr(rs) ==
    IF \A i \in 1..Len(rs) : rs[i].err = NoErr THEN NoErr
    ELSE rs[CHOOSE i \in 1..Len(rs) :
                /\ rs[i].err # NoErr
                /\ \A j \in 1..(i - 1) : rs[j].err = NoErr].err

\* What encoding/json does with the bytes a MarshalJSON method returned: they
\* have to be valid JSON, here the literal null or one string literal.
CompactMarshaler(r) ==
    IF r.err # NoErr THEN Fail(r.err)
    ELSE IF r.b = Chars("null") \/ ~JSONUnmarshalString(r.b).err THEN Ok(r.b)
    ELSE Fail("encode")

\* enc.Encode, given the indented text of the value: a final newline.
EncodeEnd(r) == IF r.err # NoErr THEN r ELSE Ok(r.b \o <<"\n">>)

\* marshal, given the indented text of the value: enc.Encode, then unwrap.
marshalEnd(r) ==
    IF EncodeEnd(r).err # NoErr THEN Fail(EncodeEnd(r).err)
    ELSE unwrap(EncodeEnd(r).b)

SelfMarshalJSON(s) == Ok(wrap(Chars("self[") \o GoQuote(s) \o <<"]">>))

\* A Super that always takes the quoted-index form, as Self does.
SuperAlwaysIndexed(s) == Ok(wrap(Chars("super[") \o GoQuote(s) \o <<"]">>))

SuperMarshalJSON(s) ==
    IF ~requiresEscaping(s)
    THEN Ok(wrap(Chars("super.") \o s))
    ELSE Ok(wrap(Chars("super[") \o GoQuote(s) \o <<"]">>))

\* A Sum that joins its elements as marshal returned them, untrimmed.
SumUntrimmed(s, rs) ==
    IF s.nil THEN Ok(Chars("null"))
    ELSE IF FirstErr(rs) # NoErr THEN Fail(FirstErr(rs))
    ELSE Ok(wrap(Join([i \in 1..Len(rs) |-> rs[i].b], <<"+">>)))

\* Sum.MarshalJSON; rs[i] is what marshal returned for element i.
SumMarshalJSON(s, rs) ==
    IF s.nil THEN Ok(Chars("null"))
    ELSE IF FirstErr(rs) # NoErr THEN Fail(FirstErr(rs))
    ELSE Ok(wrap(Join([i \in 1..Len(rs) |-> TrimSpace(rs[i].b)], <<"+">>)))

\* Index.MarshalJSON; l and r are what marshal returned for LHS and RHS.
IndexMarshalJSON(l, r) ==
    IF l.err # NoErr THEN Fail(l.err)
    ELSE IF r.err # NoErr THEN Fail(r.err)
    ELSE Ok(wrap(TrimSpace(l.b) \o <<"[">> \o TrimSpace(r.b) \o <<"]">>))

\* A Member in the dot form, fmt.Sprintf("%s.%s", l, m.Field).
MemberDotted(m, l) ==
    IF l.err # NoErr THEN Fail(l.err)
    ELSE Ok(wrap(TrimSpace(l.b) \o <<".">> \o m.Field))

\* Member.MarshalJSON; l is what marshal returned for LHS.
MemberMarshalJSON(m, l) ==
    IF l.err # NoErr THEN Fail(l.err)
    ELSE Ok(wrap(TrimSpace(l.b) \o <<"[">> \o GoQuote(m.Field) \o <<"]">>))

\* The MarshalJSON methods of the types without operands.
MarshalJSON(v) ==
    CASE v.t = "Import" -> Ok(wrap(Chars("(import ") \o GoQuote(v.s) \o <<")">>))
      [] v.t = "ImportStr" -> Ok(wrap(Chars("(importstr ") \o GoQuote(v.s) \o <<")">>))
      [] v.t = "ImportBin" -> Ok(wrap(Chars("(importbin ") \o GoQuote(v.s) \o <<")">>))
      [] v.t = "Self" -> SelfMarshalJSON(v.s)
      [] v.t = "Super" -> SuperMarshalJSON(v.s)
      [] v.t = "Var" -> Ok(wrap(v.s))

RECURSIVE EncodeValue(_, _)
\* The indented JSON text of v at nesting depth d.  A value with a MarshalJSON
\* method is encoded as the bytes the method returns; the methods of Sum,
\* Index and Member call marshal on their operands, which encodes each
\* operand on its own, from depth 0.
EncodeValue(v, d) ==
    CASE v.t = "string" -> Ok(JSONQuote(v.s))
      [] v.t = "number" -> Ok(IntToText(v.n))
      [] v.t = "bool" -> Ok(IF v.b THEN Chars("true") ELSE Chars("false"))
      [] v.t = "null" -> Ok(Chars("null"))
      [] v.t = "unsupported" -> Fail("encode")
      [] v.t = "object" ->
            LET rs == [i \in 1..Len(v.fs) |-> EncodeValue(v.fs[i].v, d + 1)]
                ls == [i \in 1..Len(v.fs) |->
                          JSONQuote(v.fs[i].k) \o <<":", " ">> \o rs[i].b]
            IN IF FirstErr(rs) # NoErr THEN Fail(FirstErr(rs))
               ELSE IF Len(v.fs) = 0 THEN Ok(<<"{", "}">>)
               ELSE Ok(<<"{">> \o NewlineIndent(d + 1)
                       \o Join(ls, <<",">> \o NewlineIndent(d + 1))
                       \o NewlineIndent(d) \o <<"}">>)
      [] v.t = "array" ->
            LET rs == [i \in 1..Len(v.es) |-> EncodeValue(v.es[i], d + 1)]
                ls == [i \in 1..Len(v.es) |-> rs[i].b]
            IN IF FirstErr(rs) # NoErr THEN Fail(FirstErr(rs))
               ELSE IF Len(v.es) = 0 THEN Ok(<<"[", "]">>)
               ELSE Ok(<<"[">> \o NewlineIndent(d + 1)
                       \o Join(ls, <<",">> \o NewlineIndent(d + 1))
                       \o NewlineIndent(d) \o <<"]">>)
      [] v.t = "Sum" ->
            CompactMarshaler(SumMarshalJSON(v,
                [i \in 1..Len(v.es) |-> marshalEnd(EncodeValue(v.es[i], 0))]))
      [] v.t = "Index" ->
            CompactMarshaler(IndexMarshalJSON(marshalEnd(EncodeValue(v.LHS, 0)),
                                              marshalEnd(EncodeValue(v.RHS, 0))))
      [] v.t = "Member" ->
            CompactMarshaler(MemberMarshalJSON(v, marshalEnd(EncodeValue(v.LHS, 0))))
      [] OTHER -> CompactMarshaler(MarshalJSON(v))

\* enc.Encode(v): the text and a final newline.
Encode(v) == EncodeEnd(EncodeValue(v, 0))

\* marshal: the structural encoding, then unwrap.
marshal(v) == marshalEnd(EncodeValue(v, 0))

----------------------------------------------------------------------------
(* The shorthand rewrite and the formatter                                 *)

\* A pattern without the +, "(?U)(.*)": the last character before the first
\* double quote that a colon follows.
superHackEndAnyKey(t, k) ==
    LET ends == {e \in (k - 1)..Len(t) : HasAt(t, e + 1, <<"\"", ":">>)}
        e == Least(ends)
    IN IF ends = {} \/ \E n \in k..e : t[n] = "\n" THEN 0 ELSE e

\* superHack is "(?U)(.*\+)": after the opening quote, from position k, the
\* first + that a double quote and a colon follow, 0 when a newline or the end
\* of the text comes first.
superHackEnd(t, k) ==
    LET ends == {e \in k..Len(t) : HasAt(t, e, <<"+", "\"", ":">>)}
        e == Least(ends)
    IN IF ends = {} \/ \E n \in k..(e - 1) : t[n] = "\n" THEN 0 ELSE e

RECURSIVE superHackFrom(_, _, _)
\* superHack.ReplaceAll(b, "$1:") from position i on: the leftmost match
\* starts at the first double quote that has a match, and is replaced by its
\* group and a colon.
superHackFrom(t, i, acc) ==
    LET starts == {s \in i..Len(t) : t[s] = "\"" /\ superHackEnd(t, s + 1) # 0}
        s == Least(starts)
        e == superHackEnd(t, s + 1)
    IN IF starts = {} THEN acc \o SubSeq(t, i, Len(t))
       ELSE superHackFrom(t, e + 3,
                acc \o SubSeq(t, i, s - 1) \o SubSeq(t, s + 1, e) \o <<":">>)

superHackReplaceAll(t) == superHackFrom(t, 1, <<>>)

\* formatter.Format belongs to go-jsonnet, an external library: whether it
\* accepts a document is an input of the model.
FormatterAnswers == {"formatted", "error"}

\* jsonnetFmt: return []byte(s), err.  On an error s is "" and []byte("") is a
\* present, empty slice.  On success the bytes returned are the formatter's
\* rendering of doc; the model carries doc, the document that was formatted,
\* and says nothing of its layout.
jsonnetFmt(doc, answer) ==
    IF answer = "error"
    THEN [nil |-> FALSE, b |-> <<>>, err |-> "format"]
    ELSE Ok(doc)

----------------------------------------------------------------------------
(* A standard JSON decoder (encoding/json's Unmarshal), into value trees   *)

\* The first position at or after i that holds no whitespace.
SkipSpace(t, i) ==
    LET rest == {j \in i..Len(t) : ~IsSpace(t[j])}
    IN IF rest = {} THEN Len(t) + 1 ELSE Least(rest)

DigitValue(c) == CHOOSE n \in 0..9 : SubSeq("0123456789", n + 1, n + 1) = c

RECURSIVE TextToInt(_)
TextToInt(ds) ==
    IF Len(ds) = 0 THEN 0
    ELSE 10 * TextToInt(SubSeq(ds, 1, Len(ds) - 1)) + DigitValue(ds[Len(ds)])

NoValue == [ok |-> FALSE, v |-> Null, next |-> 0]
Parsed(val, next) == [ok |-> TRUE, v |-> val, next |-> next]

RECURSIVE JSONParseValue(_, _)
RECURSIVE JSONParseMembers(_, _, _)
RECURSIVE JSONParseElements(_, _, _)

\* The value that starts at the first non-space position from i0 on.
JSONParseValue(t, i0) ==
    LET i == SkipSpace(t, i0)
    IN IF i > Len(t) THEN NoValue
       ELSE CASE t[i] = "\"" ->
                   LET e == JSONStringEnd(t, i)
                   IN IF e = 0 \/ JSONDecodeString(t, i, e).err THEN NoValue
                      ELSE Parsed(String(JSONDecodeString(t, i, e).s), e + 1)
              [] t[i] \in Digits ->
                   LET stop == {j \in i..Len(t) : t[j] \notin Digits}
                       e == IF stop = {} THEN Len(t) + 1 ELSE Least(stop)
                   IN Parsed(Number(TextToInt(SubSeq(t, i, e - 1))), e)
              [] HasAt(t, i, Chars("null")) -> Parsed(Null, i + 4)
              [] HasAt(t, i, Chars("true")) -> Parsed(Bool(TRUE), i + 4)
              [] HasAt(t, i, Chars("false")) -> Parsed(Bool(FALSE), i + 5)
              [] t[i] = "{" ->
                   IF HasAt(t, SkipSpace(t, i + 1), <<"}">>)
                   THEN Parsed(Object(<<>>), SkipSpace(t, i + 1) + 1)
                   ELSE JSONParseMembers(t, i + 1, <<>>)
              [] t[i] = "[" ->
                   IF HasAt(t, SkipSpace(t, i + 1), <<"]">>)
                   THEN Parsed(Array(<<>>), SkipSpace(t, i + 1) + 1)
                   ELSE JSONParseElements(t, i + 1, <<>>)
              [] OTHER -> NoValue

\* The members of an object from i0 on, after the members acc.
JSONParseMembers(t, i0, acc) ==
    LET i == SkipSpace(t, i0)
        e == JSONStringEnd(t, i)
        c == SkipSpace(t, e + 1)
        r == JSONParseValue(t, c + 1)
        j == SkipSpace(t, r.next)
        fs == Append(acc, Field(JSONDecodeString(t, i, e).s, r.v))
    IN IF \/ ~HasAt(t, i, <<"\"">>)
          \/ e = 0
          \/ JSONDecodeString(t, i, e).err
          \/ ~HasAt(t, c, <<":">>)
          \/ ~r.ok
       THEN NoValue
       ELSE IF HasAt(t, j, <<",">>) THEN JSONParseMembers(t, j + 1, fs)
       ELSE IF HasAt(t, j, <<"}">>) THEN Parsed(Object(fs), j + 1)
       ELSE NoValue

\* The elements of an array from i0 on, after the elements acc.
JSONParseElements(t, i0, acc) ==
    LET r == JSONParseValue(t, i0)
        j == SkipSpace(t, r.next)
        es == Append(acc, r.v)
    IN IF ~r.ok THEN NoValue
       ELSE IF HasAt(t, j, <<",">>) THEN JSONParseElements(t, j + 1, es)
       ELSE IF HasAt(t, j, <<"]">>) THEN Parsed(Array(es), j + 1)
       ELSE NoValue

\* json.Unmarshal of a whole document: one value and nothing but space after.
JSONDecode(t) ==
    LET r == JSONParseValue(t, 1)
    IN IF r.ok /\ SkipSpace(t, r.next) > Len(t)
       THEN [ok |-> TRUE, v |-> r.v]
       ELSE [ok |-> FALSE, v |-> Null]

----------------------------------------------------------------------------
(* Bounds and inputs                                                       *)

\* The longest Sum, the most fields of a mapping, the most chunks of a text
\* handed to wrap, the longest generated field name.
MaxSumLen == 2
MaxFields == 2
MaxChunks == 3
MaxNameLen == 2

\* The sequences over S of length lo to hi.
SeqsOf(S, lo, hi) == UNION {[1..n -> S] : n \in lo..hi}

\* Field names: those of the package's example and the empty name.
FieldNames == {Chars(n) : n \in {"foo", "foo-bar", "self", "1f", "field", ""}}

\* Texts handed to wrap: up to MaxChunks pieces, among them each marker alone,
\* a double quote, a backslash, a newline and a control character.
Chunks == {<<"a">>, <<"\"">>, <<"\\">>, <<"\n">>, <<" ">>, <<BEL>>,
           jsonnetEscapeOpen, jsonnetEscapeClose}
WrapInputs == {Flatten(cs) : cs \in SeqsOf(Chunks, 0, MaxChunks)}

\* Names handed to requiresEscaping: every text over a small alphabet up to
\* MaxNameLen, the reserved words, and some longer names.
NameAlphabet == {"a", "Z", "_", "1", "-", "\n"}
ClassifierInputs ==
    SeqsOf(NameAlphabet, 0, MaxNameLen) \cup reservedIdentifiers \cup FieldNames
    \cup {Chars(n) : n \in {"selfish", "Self", "importbinary", "foo_1", "a b", "x+"}}

\* Value trees handed to Marshal.
markedString == jsonnetEscapeOpen \o <<"x">> \o jsonnetEscapeClose

ExpressionLeaves ==
    {Var(Chars("x")), Var(Chars(" x ")), Var(<<BEL>>), Import(Chars("stuff")),
     ImportStr(Chars("bar.txt")), ImportBin(Chars("bar.bin")), NilSum}
    \cup {Self(n) : n \in FieldNames} \cup {Super(n) : n \in FieldNames}

LiteralLeaves ==
    {Number(40), String(Chars("foo")), String(Chars(":8080")), String(<<BEL, "\"">>),
     String(markedString), Null, Bool(TRUE), Bool(FALSE), Unsupported}

SumElements ==
    {Number(40), Var(Chars("x")), String(Chars("foo")), String(Chars(":8080")),
     Import(Chars("stuff")), Object(<<Field(Chars("x"), Number(42))>>)}

Sums == {Sum(es) : es \in SeqsOf(SumElements, 1, MaxSumLen)}

\* A present Sum with no element, as the left operand of an Index or a Member.
EmptySum == Sum(<<>>)

Indexes ==
    {Index(l, r) : l \in {Var(Chars("a")), EmptySum},
                   r \in {Number(1), Sum(<<String(Chars("k")), String(Chars("e"))>>)}}

Members ==
    {Member(l, f) : l \in {Var(Chars("a")), EmptySum, Self(Chars("foo"))},
                    f \in FieldNames}

Keys == {Chars("name"), Chars("k"), Chars("hack+"), jsonnetEscapeOpen \o <<"a">>}

FieldValues ==
    {String(Chars("foo")), String(<<"b">> \o jsonnetEscapeClose),
     Import(Chars("bar")),
     Sum(<<Var(Chars("host")), String(Chars(":8080"))>>),
     Object(<<Field(Chars("hack+"), Array(<<Number(1)>>))>>),
     Array(<<String(Chars("k+")), Bool(TRUE), Null>>)}

Objects ==
    {Object(fs) : fs \in {f \in SeqsOf({Field(k, x) : k \in Keys, x \in FieldValues},
                                      0, MaxFields) :
                             \A i, j \in 1..Len(f) : i # j => f[i].k # f[j].k}}

Arrays ==
    {Array(<<>>), Array(<<String(Chars("k+")), Var(Chars("x"))>>),
     Array(<<String(Chars("a")), String(Chars(":"))>>)}

Trees ==
    ExpressionLeaves \cup LiteralLeaves \cup Sums \cup Indexes \cup Members
    \cup Objects \cup Arrays

----------------------------------------------------------------------------
(* State                                                                   *)

VARIABLES
    v,        \* Marshal: the value tree
    pc,       \* Marshal: the stage reached
    doc,      \* Marshal: the text being built
    unwound,  \* Marshal: the text as unwrap left it
    ret,      \* Marshal: what is returned, ([]byte, error)
    answer,   \* Marshal: what the formatter answered
    x,        \* codec: the text handed to wrap
    wrapped,  \* codec: wrap(x)
    back,     \* codec: unwrap(wrap(x)), ([]byte, error)
    cpc,      \* codec: the step reached
    name,     \* classifier: the name handed to requiresEscaping
    escaping, \* classifier: its result
    ipc       \* classifier: the step reached

marshalVars == <<v, pc, doc, unwound, ret, answer>>
codecVars == <<x, wrapped, back, cpc>>
classifierVars == <<name, escaping, ipc>>
vars == <<marshalVars, codecVars, classifierVars>>

\* Nothing returned yet.
Pending == [nil |-> TRUE, b |-> <<>>, err |-> NoErr]

MarshalIdle ==
    /\ v = Null /\ pc = "idle" /\ doc = <<>> /\ unwound = <<>>
    /\ ret = Pending /\ answer = "none"
CodecIdle == x = <<>> /\ wrapped = <<>> /\ back = Pending /\ cpc = "idle"
ClassifierIdle == name = <<>> /\ escaping = FALSE /\ ipc = "idle"

----------------------------------------------------------------------------
(* Marshal, stage by stage                                                 *)

MarshalInit ==
    /\ v \in Trees
    /\ pc = "start"
    /\ doc = <<>>
    /\ unwound = <<>>
    /\ ret = Pending
    /\ answer = "none"

\* marshal, first half: enc.Encode(v); an error is returned at once.
StructuralEncode ==
    /\ pc = "start"
    /\ LET e == Encode(v)
       IN IF e.err # NoErr
          THEN /\ pc' = "done"
               /\ ret' = Fail(e.err)
               /\ doc' = doc
          ELSE /\ pc' = "encoded"
               /\ doc' = e.b
               /\ ret' = ret
    /\ UNCHANGED <<v, unwound, answer, codecVars, classifierVars>>

\* marshal, second half: unwrap(buf.Bytes()); an error is returned at once.
Unwrap ==
    /\ pc = "encoded"
    /\ LET u == unwrap(doc)
       IN IF u.err # NoErr
          THEN /\ pc' = "done"
               /\ ret' = Fail(u.err)
               /\ UNCHANGED <<doc, unwound>>
          ELSE /\ pc' = "unwrapped"
               /\ doc' = u.b
               /\ unwound' = u.b
               /\ ret' = ret
    /\ UNCHANGED <<v, answer, codecVars, classifierVars>>

\* b = superHack.ReplaceAll(b, "$1:")
ShorthandRewrite ==
    /\ pc = "unwrapped"
    /\ doc' = superHackReplaceAll(doc)
    /\ pc' = "rewritten"
    /\ UNCHANGED <<v, unwound, ret, answer, codecVars, classifierVars>>

\* return jsonnetFmt(b)
Format ==
    /\ pc = "rewritten"
    /\ \E a \in FormatterAnswers :
          /\ answer' = a
          /\ ret' = jsonnetFmt(doc, a)
    /\ pc' = "done"
    /\ UNCHANGED <<v, doc, unwound, codecVars, classifierVars>>

Init == MarshalInit /\ CodecIdle /\ ClassifierIdle
Next == StructuralEncode \/ Unwrap \/ ShorthandRewrite \/ Format
Spec == Init /\ [][Next]_vars

----------------------------------------------------------------------------
(* The codec on its own: wrap, then unwrap                                 *)

CodecInit ==
    /\ x \in WrapInputs
    /\ wrapped = <<>>
    /\ back = Pending
    /\ cpc = "start"

Wrap ==
    /\ cpc = "start"
    /\ wrapped' = wrap(x)
    /\ cpc' = "wrapped"
    /\ UNCHANGED <<x, back, marshalVars, classifierVars>>

UnwrapWrapped ==
    /\ cpc = "wrapped"
    /\ back' = unwrap(wrapped)
    /\ cpc' = "done"
    /\ UNCHANGED <<x, wrapped, marshalVars, classifierVars>>

InitCodec == CodecInit /\ MarshalIdle /\ ClassifierIdle
NextCodec == Wrap \/ UnwrapWrapped
SpecCodec == InitCodec /\ [][NextCodec]_vars

----------------------------------------------------------------------------
(* The classifier on its own                                               *)

ClassifierInit ==
    /\ name \in ClassifierInputs
    /\ escaping = FALSE
    /\ ipc = "start"

Classify ==
    /\ ipc = "start"
    /\ escaping' = requiresEscaping(name)
    /\ ipc' = "done"
    /\ UNCHANGED <<name, marshalVars, codecVars>>

InitClassifier == ClassifierInit /\ MarshalIdle /\ CodecIdle
NextClassifier == Classify
SpecClassifier == InitClassifier /\ [][NextClassifier]_vars

----------------------------------------------------------------------------
(* What the claims speak of                                                *)

\* Does t hold the text p somewhere?
Occurs(t, p) == \E i \in 1..Len(t) : HasAt(t, i, p)

\* Does x hold a full marker pair: the open marker and, after it, the close
\* marker?
HasMarkerPair(t) ==
    \E i, j \in 1..Len(t) :
        /\ HasAt(t, i, jsonnetEscapeOpen)
        /\ HasAt(t, j, jsonnetEscapeClose)
        /\ j >= i + Len(jsonnetEscapeOpen)

\* A name between double quotes, for names that hold no quote or backslash.
Quoted(n) == <<"\"">> \o n \o <<"\"">>

\* The document of a single node: its text and the encoder's final newline.
Line(t) == t \o <<"\n">>

RECURSIVE IsLiteralTree(_)
\* A tree of mappings, sequences, strings, numbers, booleans and null.
IsLiteralTree(t) ==
    CASE t.t \in {"string", "number", "bool", "null"} -> TRUE
      [] t.t = "object" -> \A i \in 1..Len(t.fs) : IsLiteralTree(t.fs[i].v)
      [] t.t = "array" -> \A i \in 1..Len(t.es) : IsLiteralTree(t.es[i])
      [] OTHER -> FALSE

RECURSIVE KeysOf(_)
\* The mapping keys of a tree, at any depth.
KeysOf(t) ==
    CASE t.t = "object" ->
            {t.fs[i].k : i \in 1..Len(t.fs)}
            \cup UNION {KeysOf(t.fs[i].v) : i \in 1..Len(t.fs)}
      [] t.t = "array" -> UNION {KeysOf(t.es[i]) : i \in 1..Len(t.es)}
      [] t.t = "Sum" -> UNION {KeysOf(t.es[i]) : i \in 1..Len(t.es)}
      [] t.t = "Index" -> KeysOf(t.LHS) \cup KeysOf(t.RHS)
      [] t.t = "Member" -> KeysOf(t.LHS)
      [] OTHER -> {}

RECURSIVE StringsOf(_)
\* The string values of a literal tree, at any depth.
StringsOf(t) ==
    CASE t.t = "string" -> {t.s}
      [] t.t = "object" -> UNION {StringsOf(t.fs[i].v) : i \in 1..Len(t.fs)}
      [] t.t = "array" -> UNION {StringsOf(t.es[i]) : i \in 1..Len(t.es)}
      [] OTHER -> {}

\* No key of the tree ends in +.
NoPlusKey(t) == \A k \in KeysOf(t) : ~HasSuffix(k, <<"+">>)

\* No key and no string of the tree holds the open marker.
NoOpenMarker(t) ==
    \A k \in KeysOf(t) \cup StringsOf(t) : ~Occurs(k, jsonnetEscapeOpen)

RECURSIVE KeyRewriteFrom(_, _, _)
\* The rewrite the shorthand pass is meant to be, from position i on: the
\* text is read token by token; a string token whose content ends in + and
\* that a colon follows loses its quotes, and nothing else changes.
KeyRewriteFrom(t, i, acc) ==
    LET quotes == {q \in i..Len(t) : t[q] = "\""}
        q == Least(quotes)
        e == JSONStringEnd(t, q)
    IN IF quotes = {} THEN acc \o SubSeq(t, i, Len(t))
       ELSE IF e = 0 THEN acc \o SubSeq(t, i, Len(t))
       ELSE IF e - 1 > q /\ t[e - 1] = "+" /\ HasAt(t, e + 1, <<":">>)
       THEN KeyRewriteFrom(t, e + 1,
                acc \o SubSeq(t, i, q - 1) \o SubSeq(t, q + 1, e - 1))
       ELSE KeyRewriteFrom(t, e + 1, acc \o SubSeq(t, i, e))

KeyRewrite(t) == KeyRewriteFrom(t, 1, <<>>)

RECURSIVE HasEmptySum(_)
\* Does the tree hold a Sum that is present and has no element?
HasEmptySum(t) ==
    CASE t.t = "object" -> \E i \in 1..Len(t.fs) : HasEmptySum(t.fs[i].v)
      [] t.t = "array" -> \E i \in 1..Len(t.es) : HasEmptySum(t.es[i])
      [] t.t = "Sum" ->
            \/ ~t.nil /\ Len(t.es) = 0
            \/ \E i \in 1..Len(t.es) : HasEmptySum(t.es[i])
      [] t.t = "Index" -> HasEmptySum(t.LHS) \/ HasEmptySum(t.RHS)
      [] t.t = "Member" -> HasEmptySum(t.LHS)
      [] OTHER -> FALSE

RECURSIVE EmptyAsAbsent(_)
\* The tree with every present, empty Sum replaced by an absent one.
EmptyAsAbsent(t) ==
    CASE t.t = "object" ->
            Object([i \in 1..Len(t.fs) |->
                       Field(t.fs[i].k, EmptyAsAbsent(t.fs[i].v))])
      [] t.t = "array" -> Array([i \in 1..Len(t.es) |-> EmptyAsAbsent(t.es[i])])
      [] t.t = "Sum" ->
            IF t.nil \/ Len(t.es) = 0 THEN NilSum
            ELSE Sum([i \in 1..Len(t.es) |-> EmptyAsAbsent(t.es[i])])
      [] t.t = "Index" -> Index(EmptyAsAbsent(t.LHS), EmptyAsAbsent(t.RHS))
      [] t.t = "Member" -> Member(EmptyAsAbsent(t.LHS), t.Field)
      [] OTHER -> t

----------------------------------------------------------------------------
(* The claims                                                              *)

\* C1: for every text x without a full marker pair, unwrap(wrap(x)) returns
\* x and no error.
C1_RoundTrip ==
    (cpc = "done" /\ ~HasMarkerPair(x)) => back = Ok(x)

\* C2: Marshal returns the document and no error, or an error and no output;
\* an error never comes with an output that is present, empty or not.
C2_AllOrNothing ==
    pc = "done" => (IF ret.err = NoErr THEN ~ret.nil ELSE ret.nil)

C4_Classifier ==
    ipc = "done" =>
        (escaping <=>
            \/ \E w \in {"assert", "else", "error", "false", "for", "function",
                         "if", "import", "importstr", "importbin", "in",
                         "local", "null", "tailstrict", "then", "self",
                         "super", "true"} : name = Chars(w)
            \/ name = <<>>
            \/ \E i \in 1..Len(name) :
                  ~Occurs(Chars("abcdefghijklmnopqrstuvwxyzABCDEFGHIJKLMNOPQRSTUVWXYZ_"
                                \o (IF i = 1 THEN "" ELSE "0123456789")),
                          <<name[i]>>))

C4_Witness ==
    /\ ipc = "done"
    /\ name = Chars("self")
    /\ escaping

\* C5: Self(n) renders as self.n when n is a safe identifier and as
\* self["n"] otherwise.
C5_SelfRender ==
    (pc = "unwrapped" /\ v.t = "Self") =>
        doc = Line(IF requiresEscaping(v.s)
                   THEN Chars("self[") \o Quoted(v.s) \o <<"]">>
                   ELSE Chars("self.") \o v.s)

\* C6: Super(n) renders as super.n when n is a safe identifier and as
\* super["n"] otherwise.
C6_SuperRender ==
    (pc = "unwrapped" /\ v.t = "Super") =>
        doc = Line(IF requiresEscaping(v.s)
                   THEN Chars("super[") \o Quoted(v.s) \o <<"]">>
                   ELSE Chars("super.") \o v.s)

C6_Witness ==
    /\ pc = "unwrapped"
    /\ v = Super(Chars("foo"))
    /\ doc = Line(Chars("super.foo"))

\* C7: a Sum of e1..en, n >= 1, renders as r1+...+rn in the order of the
\* elements, ri being element i rendered on its own with the space at its
\* ends removed; an absent Sum renders as null.
C7_SumRender ==
    (pc = "unwrapped" /\ v.t = "Sum" /\ (v.nil \/ Len(v.es) >= 1)) =>
        IF v.nil THEN doc = Line(Chars("null"))
        ELSE /\ \A i \in 1..Len(v.es) : marshal(v.es[i]).err = NoErr
             /\ doc = Line(Join([i \in 1..Len(v.es) |->
                                    TrimSpace(marshal(v.es[i]).b)], <<"+">>))

C7_Witness ==
    /\ pc = "unwrapped"
    /\ v = Sum(<<Number(40), Object(<<Field(Chars("x"), Number(42))>>)>>)
    /\ doc = Line(Chars("40+{\n    \"x\": 42\n}"))

\* C8: the shorthand rewrite takes the quotes off every key that ends in +
\* and that a colon follows, and changes nothing else.
C8_ShorthandRewrite ==
    pc = "rewritten" => doc = KeyRewrite(unwound)

C10_EmptySumIsNull ==
    (pc = "done" /\ HasEmptySum(v) /\ ret.err = NoErr) =>
        doc = superHackReplaceAll(marshal(EmptyAsAbsent(v)).b)

============================================================================
